---- MODULE Spec2Model ----
(***************************************************************************)
(* A model of phixelgator.py: the colour conversions, the memoised         *)
(* nearest-palette-colour search, the block reduction (phixelate), the     *)
(* crop (phixel_crop) and the control flow of the script (__main__).       *)
(*                                                                         *)
(* The script is written for Python 2: map() returns a list (line 48       *)
(* subscripts it, line 137 serialises it), "/" is true division (line 2)   *)
(* and round() rounds halves away from zero.  Floating-point values are    *)
(* modelled as exact rationals <<n, d>> with d > 0 in lowest terms.        *)
(***************************************************************************)
EXTENDS Integers, Sequences, FiniteSets, TLC

\* ------------------------------------------------------------------ bounds
\* Largest image width of the block-reduction and script specifications.
MaxW == 3
\* Largest positive block size.
MaxBlock == 2
\* Largest image side of the crop specification.
MaxCropDim == 10
\* Longest palette and number of calls of the matcher specification.
MaxPal == 2
MaxCalls == 2

\* ------------------------------------------------------- integer helpers
Abs(n) == IF n < 0 THEN -n ELSE n

Max2(a, b) == IF a >= b THEN a ELSE b

Min2(a, b) == IF a <= b THEN a ELSE b

\* Python's a // b on integers (floor division, b # 0).
FloorDiv(a, b) == IF b > 0 THEN a \div b ELSE (-a) \div (-b)

\* int(math.ceil(a / b)) under true division (b # 0).
CeilDiv(a, b) == -FloorDiv(-a, b)

RECURSIVE GCD(_, _)
GCD(a, b) == IF b = 0 THEN a ELSE GCD(b, a % b)

\* ---------------------------------------------------- rationals (floats)
Normal(n, d, g) == <<n \div g, d \div g>>

Rat(n, d) ==
    IF d < 0 THEN Normal(-n, -d, GCD(Abs(n), Abs(d)))
    ELSE Normal(n, d, GCD(Abs(n), Abs(d)))

RInt(n) == <<n, 1>>

RAdd(p, q) == Rat(p[1] * q[2] + q[1] * p[2], p[2] * q[2])

RSub(p, q) == Rat(p[1] * q[2] - q[1] * p[2], p[2] * q[2])

RMul(p, q) == Rat(p[1] * q[1], p[2] * q[2])

RDiv(p, q) == Rat(p[1] * q[2], p[2] * q[1])

RLt(p, q) == p[1] * q[2] < q[1] * p[2]

RLe(p, q) == p[1] * q[2] <= q[1] * p[2]

RAbs(p) == <<Abs(p[1]), p[2]>>

\* math.floor of a rational.
RFloor(p) == p[1] \div p[2]

\* int(x): truncation toward zero.
RTrunc(p) == IF p[1] >= 0 THEN p[1] \div p[2] ELSE -((-p[1]) \div p[2])

\* x % 1.0
RMod1(p) == RSub(p, RInt(RFloor(p)))

\* int(round(x)) in Python 2: halves are rounded away from zero.
RRound(p) ==
    IF p[1] >= 0 THEN (2 * p[1] + p[2]) \div (2 * p[2])
    ELSE -((2 * (-p[1]) + p[2]) \div (2 * p[2]))

Max3(a, b, c) == Max2(a, Max2(b, c))

Min3(a, b, c) == Min2(a, Min2(b, c))

\* ------------------------------------------------------ colour conversion
\* The hue computed by colorsys.rgb_to_hsv and rgb_to_hls for maxc # minc.
HueOf(r, g, b, maxc, rng) ==
    RMod1(RDiv(IF r = maxc THEN RSub(Rat(maxc - b, rng), Rat(maxc - g, rng))
               ELSE IF g = maxc
                 THEN RSub(RAdd(RInt(2), Rat(maxc - r, rng)), Rat(maxc - b, rng))
               ELSE RSub(RAdd(RInt(4), Rat(maxc - g, rng)), Rat(maxc - r, rng)),
               RInt(6)))

HsvOf(r, g, b, maxc, minc) ==
    IF minc = maxc THEN <<RInt(0), RInt(0), Rat(maxc, 255)>>
    ELSE <<HueOf(r, g, b, maxc, maxc - minc), Rat(maxc - minc, maxc),
           Rat(maxc, 255)>>

\* rgb_to_hsv(r, g, b) == colorsys.rgb_to_hsv(r / 255, g / 255, b / 255)
rgb_to_hsv(r, g, b) == HsvOf(r, g, b, Max3(r, g, b), Min3(r, g, b))

HlsOf(r, g, b, maxc, minc) ==
    IF minc = maxc THEN <<RInt(0), Rat(minc + maxc, 510), RInt(0)>>
    ELSE <<HueOf(r, g, b, maxc, maxc - minc), Rat(minc + maxc, 510),
           IF minc + maxc <= 255 THEN Rat(maxc - minc, maxc + minc)
           ELSE Rat(maxc - minc, 510 - maxc - minc)>>

\* rgb_to_hls(r, g, b) == colorsys.rgb_to_hls(r / 255, g / 255, b / 255)
rgb_to_hls(r, g, b) == HlsOf(r, g, b, Max3(r, g, b), Min3(r, g, b))

\* lambda x: int(x * 255.0)
To255(q) == RTrunc(RMul(q, RInt(255)))

\* The sextant choice of colorsys.hsv_to_rgb, each channel then int(x * 255.0).
HsvSextant(i, v, p, q, t) ==
    CASE i = 0 -> <<To255(v), To255(t), To255(p)>>
      [] i = 1 -> <<To255(q), To255(v), To255(p)>>
      [] i = 2 -> <<To255(p), To255(v), To255(t)>>
      [] i = 3 -> <<To255(p), To255(q), To255(v)>>
      [] i = 4 -> <<To255(t), To255(p), To255(v)>>
      [] OTHER -> <<To255(v), To255(p), To255(q)>>

\* p, q, t of colorsys.hsv_to_rgb from i = int(h * 6.0) and f = h * 6.0 - i.
HsvMix(i, f, s, v) ==
    HsvSextant(i % 6, v,
               RMul(v, RSub(RInt(1), s)),
               RMul(v, RSub(RInt(1), RMul(s, f))),
               RMul(v, RSub(RInt(1), RMul(s, RSub(RInt(1), f)))))

\* hsv_to_rgb(h, s, v): colorsys.hsv_to_rgb, each channel then int(x * 255.0).
hsv_to_rgb(h, s, v) ==
    IF s[1] = 0 THEN <<To255(v), To255(v), To255(v)>>
    ELSE HsvMix(RTrunc(RMul(h, RInt(6))),
                RSub(RMul(h, RInt(6)), RInt(RTrunc(RMul(h, RInt(6))))), s, v)

\* colorsys._v(m1, m2, hue) after hue = hue % 1.0.
HlsRamp(m1, m2, hue) ==
    IF RLt(hue, Rat(1, 6))
      THEN RAdd(m1, RMul(RMul(RSub(m2, m1), hue), RInt(6)))
    ELSE IF RLt(hue, Rat(1, 2)) THEN m2
    ELSE IF RLt(hue, Rat(2, 3))
      THEN RAdd(m1, RMul(RMul(RSub(m2, m1), RSub(Rat(2, 3), hue)), RInt(6)))
    ELSE m1

HlsV(m1, m2, hue) == HlsRamp(m1, m2, RMod1(hue))

HlsChannels(m1, m2, h) ==
    <<To255(HlsV(m1, m2, RAdd(h, Rat(1, 3)))),
      To255(HlsV(m1, m2, h)),
      To255(HlsV(m1, m2, RSub(h, Rat(1, 3))))>>

\* m2 of colorsys.hls_to_rgb.
HlsM2(l, s) ==
    IF RLe(l, Rat(1, 2)) THEN RMul(l, RAdd(RInt(1), s))
    ELSE RSub(RAdd(l, s), RMul(l, s))

\* hls_to_rgb(h, l, s): colorsys.hls_to_rgb, each channel then int(x * 255.0).
hls_to_rgb(h, l, s) ==
    IF s[1] = 0 THEN <<To255(l), To255(l), To255(l)>>
    ELSE HlsChannels(RSub(RMul(RInt(2), l), HlsM2(l, s)), HlsM2(l, s), h)

\* ------------------------------------------------------------- the modes
Modes == {"rgb", "hsv", "hls"}

\* ------------------------------------------------------------ matching
\* hex(int(t)).split('x', 1)[1]: the hexadecimal digits of |t|, no padding.
RECURSIVE HexDigits(_)
HexDigits(n) ==
    IF Abs(n) < 16 THEN <<Abs(n)>>
    ELSE Append(HexDigits(Abs(n) \div 16), Abs(n) % 16)

\* int(t) of a channel: an integer in rgb mode (and after hsv_to_rgb,
\* hls_to_rgb), where it is the identity.
HexOf(rgb) == HexDigits(rgb[1]) \o HexDigits(rgb[2]) \o HexDigits(rgb[3])

\* A colour of the mode's space as the integer RGB triple of lines 31-36.
ModeToRgb(color, mode) ==
    IF mode = "hsv" THEN hsv_to_rgb(color[1], color[2], color[3])
    ELSE IF mode = "hls" THEN hls_to_rgb(color[1], color[2], color[3])
    ELSE <<color[1], color[2], color[3]>>

get_hex(color, mode) == HexOf(ModeToRgb(color, mode))

color_diff(c1, c2) ==
    (c1[1] - c2[1]) * (c1[1] - c2[1])
    + (c1[2] - c2[2]) * (c1[2] - c2[2])
    + (c1[3] - c2[3]) * (c1[3] - c2[3])

color_diff_wheighted(c1, c2) ==
    LET d1 == RAbs(RSub(c1[1], c2[1]))
        d2 == RAbs(RSub(c1[2], c2[2]))
        d3 == RAbs(RSub(c1[3], c2[3]))
    IN  RAdd(RAdd(RMul(d1, RInt(10)), RMul(d2, RInt(10))), RMul(d3, RInt(10)))

\* diff_func(color, c) of get_closest_color, as a rational.
DiffKey(color, c, mode) ==
    IF mode # "rgb" THEN color_diff_wheighted(color, c)
    ELSE RInt(color_diff(color, c))

\* A scan that also replaces its best on an equal key (keeps the last minimum).
MinReplacesOnTie(k, kb) == RLe(k, kb)

\* Whether min() replaces its current best (key kb) by a later element (key k).
MinReplaces(k, kb) == RLt(k, kb)

\* min(palette, key = ...): the scan from index i on, best holding the index
\* of the smallest key so far.
RECURSIVE MinScan(_, _, _, _, _)
MinScan(color, palette, mode, i, best) ==
    IF i > Len(palette) THEN best
    ELSE IF MinReplaces(DiffKey(color, palette[i], mode),
                        DiffKey(color, palette[best], mode))
      THEN MinScan(color, palette, mode, i + 1, i)
    ELSE MinScan(color, palette, mode, i + 1, best)

\* The memo table is a set of <<key, entry>> pairs with distinct keys.
HexKeys(hexdict) == {e[1] : e \in hexdict}

HexLookup(hexdict, key) == (CHOOSE e \in hexdict : e[1] = key)[2]

\* Lines 63-69 once hexval is computed: the colour returned, the memo table
\* afterwards and whether the key was found in it.
ClosestByKey(hexval, color, palette, hexdict, mode) ==
    IF hexval \in HexKeys(hexdict)
      THEN [result |-> HexLookup(hexdict, hexval), hexdict |-> hexdict,
            hit |-> TRUE]
    ELSE [result |-> palette[MinScan(color, palette, mode, 2, 1)],
          hexdict |-> hexdict \cup
                      {<<hexval, palette[MinScan(color, palette, mode, 2, 1)]>>},
          hit |-> FALSE]

get_closest_color(color, palette, hexdict, mode) ==
    ClosestByKey(get_hex(color, mode), color, palette, hexdict, mode)

\* ------------------------------------------------------------ averaging
RECURSIVE SumInt(_, _, _)
SumInt(data, ch, i) ==
    IF i > Len(data) THEN 0 ELSE data[i][ch] + SumInt(data, ch, i + 1)

RECURSIVE SumRat(_, _, _)
SumRat(data, ch, i) ==
    IF i > Len(data) THEN RInt(0)
    ELSE RAdd(data[i][ch], SumRat(data, ch, i + 1))

\* len(list(zip(*data))[:3]): the number of channels kept.
MapSize(data) == Min2(3, Len(data[1]))

\* The divisor of the other branch used in the rgb branch.
ChannelDivisor(data) == Min2(3, Len(data[1]))

\* The divisor of the rgb branch: len(data).
RgbDivisor(data) == Len(data)

average_pixel(data, mode) ==
    IF mode = "rgb"
      THEN [ch \in 1..3 |-> RRound(Rat(SumInt(data, ch, 1), RgbDivisor(data)))]
    ELSE [ch \in 1..3 |-> RDiv(SumRat(data, ch, 1), RInt(MapSize(data)))]

\* --------------------------------------------------------------- images
\* An image is [w, h, px]: px maps <<x, y>>, 0 <= x < w, 0 <= y < h, to an
\* (R, G, B, A) tuple.
Cells(w, h) == (0..(w - 1)) \X (0..(h - 1))

\* PIL's Image.crop(box) on an RGBA image: the pixels of the box, zero where
\* the box leaves the image.
ImageCrop(img, box) ==
    LET nw == Max2(0, box[3] - box[1])
        nh == Max2(0, box[4] - box[2])
    IN  [w |-> nw, h |-> nh,
         px |-> [c \in Cells(nw, nh) |->
                   LET s == <<c[1] + box[1], c[2] + box[2]>>
                   IN  IF s \in Cells(img.w, img.h) THEN img.px[s]
                       ELSE <<0, 0, 0, 0>>]]

\* The 'tr' anchor confused with 'tl'.
CropBoxTRLeft(width, height, newWidth, newHeight) ==
    <<0, 0, newWidth, newHeight>>

\* The box of the 'tr' anchor.
CropBoxTR(width, height, newWidth, newHeight) ==
    <<width - newWidth, 0, width, newHeight>>

CropBox(width, height, newWidth, newHeight, orientation) ==
    CASE orientation = "tl" -> <<0, 0, newWidth, newHeight>>
      [] orientation = "tr" -> CropBoxTR(width, height, newWidth, newHeight)
      [] orientation = "bl" -> <<0, height - newHeight, newWidth, height>>
      [] orientation = "br" ->
           <<width - newWidth, height - newHeight, width, height>>

phixel_crop(img, block_size, orientation) ==
    LET newWidth  == FloorDiv(img.w, block_size) * block_size
        newHeight == FloorDiv(img.h, block_size) * block_size
    IN  ImageCrop(img, CropBox(img.w, img.h, newWidth, newHeight, orientation))

\* PIL's Image.resize on an RGBA image (nearest-neighbour resampling; an
\* empty source has no pixel to sample and gives zero pixels).
ImageResize(img, nw, nh) ==
    [w |-> nw, h |-> nh,
     px |-> [c \in Cells(nw, nh) |->
               LET s == <<(c[1] * img.w) \div nw, (c[2] * img.h) \div nh>>
               IN  IF s \in Cells(img.w, img.h) THEN img.px[s]
                   ELSE <<0, 0, 0, 0>>]]

\* ------------------------------------------------------- block reduction
\* A block count that drops the truncated edge block.
BlockCountFloor(size, blockSize) == FloorDiv(size, blockSize)

\* blockWidth, blockHeight of phixelate.
BlockCount(size, blockSize) == CeilDiv(size, blockSize)

\* The xi (or yi) visited by range(blockSize) before the break.
BlockSpan(offset, blockSize, size) ==
    {i \in 0..(blockSize - 1) : i + offset < size}

\* The pixel positions of block (x, y) in the order the loops visit them.
BlockCells(img, blockSize, x, y) ==
    LET nx == Cardinality(BlockSpan(x * blockSize, blockSize, img.w))
        ny == Cardinality(BlockSpan(y * blockSize, blockSize, img.h))
    IN  [k \in 1..(nx * ny) |->
           <<x * blockSize + ((k - 1) \div ny), y * blockSize + ((k - 1) % ny)>>]

\* The store of a channel into an RGBA image: clipped to 0..255.
Clip8(v) == IF v < 0 THEN 0 ELSE IF v > 255 THEN 255 ELSE v

\* The rounded mean of the alpha channel of a block.
AvgAlpha(container) ==
    RRound(Rat(SumInt(container, 4, 1), Len(container)))

\* Lines 103-106: the block in the colour space of the mode.
ConvertBlock(container, mode) ==
    IF mode = "hsv"
      THEN [k \in 1..Len(container) |->
              rgb_to_hsv(container[k][1], container[k][2], container[k][3])]
    ELSE IF mode = "hls"
      THEN [k \in 1..Len(container) |->
              rgb_to_hls(container[k][1], container[k][2], container[k][3])]
    ELSE container

\* Line 110: the averaged colour snapped to the palette, if there is one.
SnapColor(average, palette, hexdict, mode) ==
    IF palette # <<>> THEN get_closest_color(average, palette, hexdict, mode)
    ELSE [result |-> average, hexdict |-> hexdict, hit |-> FALSE]

\* Lines 113-120: back to RGB and the alpha appended (int(round(co)) is the
\* identity on the integers both leave).
FinalColor(rgb, avg_alpha) == <<rgb[1], rgb[2], rgb[3], avg_alpha>>

BlockLocals(cells, container, converted, avg_alpha, average, match, mode) ==
    [cells |-> cells, container |-> container, converted |-> converted,
     avg_alpha |-> avg_alpha, average |-> average, snapped |-> match.result,
     hit |-> match.hit, hexdict |-> match.hexdict,
     color |-> FinalColor(ModeToRgb(match.result, mode), avg_alpha)]

ReduceConverted(cells, container, converted, palette, hexdict, mode) ==
    BlockLocals(cells, container, converted, AvgAlpha(container),
                average_pixel(converted, mode),
                SnapColor(average_pixel(converted, mode), palette, hexdict, mode),
                mode)

ReduceContainer(cells, container, palette, hexdict, mode) ==
    ReduceConverted(cells, container, ConvertBlock(container, mode),
                    palette, hexdict, mode)

\* Lines 89-120 for block (x, y): the locals at the end of the iteration.
ReduceBlock(img, palette, hexdict, blockSize, mode, x, y) ==
    ReduceContainer(BlockCells(img, blockSize, x, y),
                    [k \in 1..Len(BlockCells(img, blockSize, x, y)) |->
                       img.px[BlockCells(img, blockSize, x, y)[k]]],
                    palette, hexdict, mode)

\* Lines 122-126: the tuple stored at every position of the block.
WriteBlock(img, cells, color) ==
    LET where == {cells[k] : k \in 1..Len(cells)}
        stored == [ch \in 1..4 |-> Clip8(color[ch])]
    IN  [img EXCEPT !.px = [c \in DOMAIN img.px |->
                              IF c \in where THEN stored ELSE img.px[c]]]

\* --------------------------------------------------------------- inputs
\* The pixels the images of the block-reduction specification are drawn from.
\* (1, 16, 0) and (17, 0, 0) are two colours whose unpadded hexadecimal
\* digits concatenate to the same string.
PixelVals == {<<1, 16, 0, 255>>, <<17, 0, 0, 0>>}

Heights == {1, 2}

\* The palette documents (RGB triplets) the runs are given.
PalA == <<<<0, 16, 0>>, <<17, 0, 0>>>>

PalB == <<<<255, 255, 255>>, <<9, 8, 0>>, <<255, 255, 255>>, <<9, 8, 1>>>>

Palettes == {PalA, PalB}

\* Lines 216-219: a palette of RGB triplets in the colour space of the mode;
\* a built-in palette is stored under palettes/<mode>/ in that space.
ConvertPalette(doc, mode) ==
    IF mode = "hsv"
      THEN [i \in 1..Len(doc) |-> rgb_to_hsv(doc[i][1], doc[i][2], doc[i][3])]
    ELSE IF mode = "hls"
      THEN [i \in 1..Len(doc) |-> rgb_to_hls(doc[i][1], doc[i][2], doc[i][3])]
    ELSE doc

\* args.block: argparse's type=int accepts every integer.
BlockArgs == {-2, -1, 0} \cup (1..MaxBlock)

Anchors == {"tl", "tr", "bl", "br"}

Images(widths, heights, vals) ==
    UNION {{[w |-> w, h |-> h, px |-> f] : f \in [Cells(w, h) -> vals]} :
           <<w, h>> \in widths \X heights}

\* The image whose pixel at (x, y) is (x, y, 0, 255): every pixel differs.
TaggedImage(w, h) ==
    [w |-> w, h |-> h, px |-> [c \in Cells(w, h) |-> <<c[1], c[2], 0, 255>>]]

\* The colours and palettes of the matcher specification.
MatchColours == (0..2) \X (0..2) \X {0}

MatchEntries == (0..1) \X (0..1) \X (0..1)

MatchPalettes == UNION {[1..n -> MatchEntries] : n \in 1..MaxPal}

\* ---------------------------------------------------------------- state
VARIABLES
    pc,        \* where the script is: parse, load, crop, phixelate, loop,
               \* save, exit (match: a caller of get_closest_color alone)
    args,      \* the parsed command line
    paldoc,    \* the palette document on disk (RGB triplets)
    img,       \* the pixel buffer
    pre,       \* the pixel buffer phixel_crop or phixelate was entered with
    palette,   \* the loaded palette; <<>> is "no palette" (False or empty)
    hexdict,   \* the memo table of the current phixelate call
    x, y,      \* the block loop's indices
    local,     \* the locals of the last block iteration (or matcher call)
    owner,     \* for each pixel, the blocks that wrote it
    stderr,    \* what was written to sys.stderr
    outfile,   \* the image handed to the encoder, NoImage before
    exitcode,  \* the exit status, -1 while running
    calls      \* the calls completed so far

vars == <<pc, args, paldoc, img, pre, palette, hexdict, x, y, local, owner,
          stderr, outfile, exitcode, calls>>

NoImage == [w |-> 0, h |-> 0, px |-> <<>>, none |-> TRUE]

NoLocal == [valid |-> FALSE]

FileStates == {"absent", "ok", "missing", "malformed"}

DimStates == {"absent", "ok", "malformed", "invalid"}

\* The width and height a well-formed --dimensions asks for.
DimW == 1
DimH == 2

InitRest ==
    /\ pre = NoImage
    /\ hexdict = {}
    /\ x = 0
    /\ y = 0
    /\ local = NoLocal
    /\ owner = <<>>
    /\ stderr = <<>>
    /\ outfile = NoImage
    /\ exitcode = -1
    /\ calls = <<>>

\* The script, started on a command line and an input image.
Init ==
    /\ pc = "parse"
    /\ args \in [block : BlockArgs, custom : FileStates, palette : FileStates,
                 mode : Modes, crop : Anchors \cup {"none"},
                 dimensions : DimStates]
    /\ paldoc = PalA
    /\ img \in {TaggedImage(w, h) : w \in 1..MaxW, h \in Heights}
    /\ palette = <<>>
    /\ InitRest

\* An uncaught exception: the traceback on stderr, exit status 1.
Uncaught(name) ==
    /\ stderr' = Append(stderr, name)
    /\ exitcode' = 1
    /\ pc' = "exit"

\* Line 195: argparse opens the --custom file; a file it cannot open is an
\* argparse error (exit status 2).
ParseArgs ==
    /\ pc = "parse"
    /\ IF args.custom = "missing"
         THEN /\ stderr' = Append(stderr, "argparse: can't open custom palette")
              /\ exitcode' = 2
              /\ pc' = "exit"
         ELSE /\ pc' = "load"
              /\ UNCHANGED <<stderr, exitcode>>
    /\ UNCHANGED <<args, paldoc, img, pre, palette, hexdict, x, y, local,
                   owner, outfile, calls>>

\* What the except clause of lines 225-227 leaves behind.
PaletteFallback(err) == [palette |-> <<>>, stderr |-> Append(err, "No palette loaded")]

\* Lines 210-227.
LoadPalette ==
    /\ pc = "load"
    /\ IF args.custom # "absent"
         THEN IF args.custom = "malformed"
                THEN /\ Uncaught("ValueError: json.loads")
                     /\ UNCHANGED palette
                ELSE /\ palette' = ConvertPalette(paldoc, args.mode)
                     /\ pc' = "crop"
                     /\ UNCHANGED <<stderr, exitcode>>
         ELSE IF args.palette # "absent"
                THEN IF args.palette = "ok"
                       THEN /\ palette' = ConvertPalette(paldoc, args.mode)
                            /\ pc' = "crop"
                            /\ UNCHANGED <<stderr, exitcode>>
                       ELSE /\ palette' = PaletteFallback(stderr).palette
                            /\ stderr' = PaletteFallback(stderr).stderr
                            /\ pc' = "crop"
                            /\ UNCHANGED exitcode
         ELSE /\ palette' = <<>>
              /\ pc' = "crop"
              /\ UNCHANGED <<stderr, exitcode>>
    /\ UNCHANGED <<args, paldoc, img, pre, hexdict, x, y, local, owner,
                   outfile, calls>>

\* Lines 229-232.
CropStep ==
    /\ pc = "crop"
    /\ IF args.crop = "none"
         THEN /\ pc' = "phixelate"
              /\ UNCHANGED <<img, pre, calls, stderr, exitcode>>
         ELSE IF args.block = 0
           THEN /\ Uncaught("ZeroDivisionError: phixel_crop")
                /\ UNCHANGED <<img, pre, calls>>
         ELSE /\ img' = phixel_crop(img, args.block, args.crop)
              /\ pre' = img
              /\ calls' = Append(calls, "phixel_crop")
              /\ pc' = "phixelate"
              /\ UNCHANGED <<stderr, exitcode>>
    /\ UNCHANGED <<args, paldoc, palette, hexdict, x, y, local, owner,
                   outfile>>

\* Lines 78-82 of phixelate.
PhixelateEnter ==
    /\ pc = "phixelate"
    /\ IF args.block = 0
         THEN /\ Uncaught("ZeroDivisionError: phixelate")
              /\ UNCHANGED <<pre, hexdict, x, y, owner>>
         ELSE /\ pre' = img
              /\ hexdict' = {}
              /\ x' = 0
              /\ y' = 0
              /\ owner' = [c \in DOMAIN img.px |-> {}]
              /\ pc' = "loop"
              /\ UNCHANGED <<stderr, exitcode>>
    /\ UNCHANGED <<args, paldoc, img, palette, local, outfile, calls>>

\* The effect of one block iteration whose locals are r.
StoreBlock(r) ==
    /\ img' = WriteBlock(img, r.cells, r.color)
    /\ hexdict' = r.hexdict
    /\ local' = [valid |-> TRUE, block |-> <<x, y>>, cells |-> r.cells,
                 container |-> r.container, converted |-> r.converted,
                 avg_alpha |-> r.avg_alpha, average |-> r.average,
                 snapped |-> r.snapped, hit |-> r.hit, color |-> r.color]
    /\ owner' = [c \in DOMAIN owner |->
                   IF c \in {r.cells[k] : k \in 1..Len(r.cells)}
                     THEN owner[c] \cup {<<x, y>>}
                   ELSE owner[c]]

\* Lines 84-126: one iteration of the block loops.
PhixelateBlock ==
    /\ pc = "loop"
    /\ x < BlockCount(img.w, args.block)
    /\ y < BlockCount(img.h, args.block)
    /\ StoreBlock(ReduceBlock(img, palette, hexdict, args.block, args.mode, x, y))
    /\ IF y + 1 < BlockCount(img.h, args.block)
         THEN /\ y' = y + 1
              /\ x' = x
         ELSE /\ y' = 0
              /\ x' = x + 1
    /\ UNCHANGED <<pc, args, paldoc, pre, palette, stderr, outfile, exitcode,
                   calls>>

\* The block loops are exhausted: phixelate returns.
PhixelateReturn ==
    /\ pc = "loop"
    /\ ~ (/\ x < BlockCount(img.w, args.block)
          /\ y < BlockCount(img.h, args.block))
    /\ pc' = "save"
    /\ calls' = Append(calls, "phixelate")
    /\ UNCHANGED <<args, paldoc, img, pre, palette, hexdict, x, y, local,
                   owner, stderr, outfile, exitcode>>

\* Whether lines 239-240 raise: a dimension string that does not parse or
\* names a size PIL rejects does; an empty source image may or may not.
ResizeRaises(image, dimensions) ==
    IF dimensions # "ok" THEN {TRUE}
    ELSE IF image.w = 0 \/ image.h = 0 THEN {TRUE, FALSE}
    ELSE {FALSE}

\* An except clause that gives up instead of saving the un-resized buffer.
ResizeFallbackAbort(image, err) ==
    [outfile |-> [w |-> 0, h |-> 0, px |-> <<>>, none |-> TRUE],
     stderr |-> Append(err, "Failed to resize image"), exitcode |-> 1]

\* Lines 242-244: what the except clause writes and emits.
ResizeFallback(image, err) ==
    [outfile |-> image, stderr |-> Append(err, "Failed to resize image"),
     exitcode |-> 0]

\* Lines 237-248.
ResizeSave ==
    /\ pc = "save"
    /\ IF args.dimensions = "absent"
         THEN /\ outfile' = img
              /\ exitcode' = 0
              /\ calls' = Append(calls, "save")
              /\ UNCHANGED stderr
         ELSE \E raises \in ResizeRaises(img, args.dimensions) :
                IF raises
                  THEN /\ outfile' = ResizeFallback(img, stderr).outfile
                       /\ stderr' = ResizeFallback(img, stderr).stderr
                       /\ exitcode' = ResizeFallback(img, stderr).exitcode
                       /\ calls' = calls \o <<"resize raised", "save">>
                  ELSE /\ outfile' = ImageResize(img, DimW, DimH)
                       /\ exitcode' = 0
                       /\ calls' = calls \o <<"resize", "save">>
                       /\ UNCHANGED stderr
    /\ pc' = "exit"
    /\ UNCHANGED <<args, paldoc, img, pre, palette, hexdict, x, y, local,
                   owner>>

Next ==
    \/ ParseArgs
    \/ LoadPalette
    \/ CropStep
    \/ PhixelateEnter
    \/ PhixelateBlock
    \/ PhixelateReturn
    \/ ResizeSave

Spec == Init /\ [][Next]_vars

\* ----------------------------------------------- phixelate on its own
\* phixelate called on an image, a palette (or none), a block size and a mode.
InitPhix ==
    /\ pc = "phixelate"
    /\ args \in [block : BlockArgs, custom : {"absent"},
                 palette : {"absent", "ok"}, mode : Modes, crop : {"none"},
                 dimensions : {"absent"}]
    /\ paldoc \in Palettes
    /\ args.palette = "absent" => paldoc = PalA
    /\ palette = IF args.palette = "ok" THEN ConvertPalette(paldoc, args.mode)
                 ELSE <<>>
    /\ img \in Images(1..MaxW, Heights, PixelVals)
    /\ InitRest

NextPhix ==
    \/ PhixelateEnter
    \/ PhixelateBlock
    \/ PhixelateReturn

SpecPhix == InitPhix /\ [][NextPhix]_vars

\* --------------------------------------------- phixel_crop on its own
CropBlocks == 1..(MaxCropDim + 1)

InitCrop ==
    /\ pc = "crop"
    /\ args \in [block : CropBlocks, custom : {"absent"}, palette : {"absent"},
                 mode : {"rgb"}, crop : Anchors, dimensions : {"absent"}]
    /\ paldoc = PalA
    /\ palette = <<>>
    /\ img \in {TaggedImage(w, h) : w \in 1..MaxCropDim, h \in 1..MaxCropDim}
    /\ InitRest

NextCrop == CropStep

SpecCrop == InitCrop /\ [][NextCrop]_vars

\* ---------------------------------------- get_closest_color on its own
InitMatch ==
    /\ pc = "match"
    /\ args = [block |-> 1, custom |-> "ok", palette |-> "absent",
               mode |-> "rgb", crop |-> "none", dimensions |-> "absent"]
    /\ paldoc \in MatchPalettes
    /\ palette = paldoc
    /\ img = NoImage
    /\ InitRest

\* One call of get_closest_color on the shared memo table.
MatchCall ==
    /\ pc = "match"
    /\ Len(calls) < MaxCalls
    /\ \E color \in MatchColours :
         /\ hexdict' = get_closest_color(color, palette, hexdict, args.mode).hexdict
         /\ local' = [valid |-> TRUE, color |-> color,
                      result |-> get_closest_color(color, palette, hexdict,
                                                   args.mode).result,
                      hit |-> get_closest_color(color, palette, hexdict,
                                                args.mode).hit]
    /\ calls' = Append(calls, "get_closest_color")
    /\ UNCHANGED <<pc, args, paldoc, img, pre, palette, x, y, owner, stderr,
                   outfile, exitcode>>

NextMatch == MatchCall

SpecMatch == InitMatch /\ [][NextMatch]_vars

\* ================================================================ claims
Contains(seq, e) == \E i \in 1..Len(seq) : seq[i] = e

\* C1: within one phixelate call, every get_closest_color call returns the
\* palette entry a call with an empty memo table returns for that colour.
C1_MemoTransparent ==
    (local.valid /\ palette # <<>>) =>
        local.snapped =
            palette[MinScan(local.average, palette, args.mode, 2, 1)]

\* C2: for blockSize >= 1, when phixelate has returned every pixel was written
\* by exactly one block, the block of its coordinates; the blocks are the
\* ceil(W/B) x ceil(H/B) grid, none empty; the pixels of a block are equal.
C2_BlockCoverage ==
    (pc = "save" /\ args.block >= 1) =>
        /\ \A c \in DOMAIN img.px :
             owner[c] = {<<c[1] \div args.block, c[2] \div args.block>>}
        /\ UNION {owner[c] : c \in DOMAIN img.px} =
             (0..((img.w + args.block - 1) \div args.block - 1))
             \X (0..((img.h + args.block - 1) \div args.block - 1))
        /\ \A c, d \in DOMAIN img.px :
             owner[c] = owner[d] => img.px[c] = img.px[d]

C2_Witness ==
    /\ pc = "save"
    /\ args.block = 2
    /\ img.w = 3
    /\ img.h = 2
    /\ pre.px[<<0, 0>>] # pre.px[<<1, 1>>]
    /\ pre.px[<<2, 0>>] # pre.px[<<2, 1>>]
    /\ img.px[<<1, 1>>] # img.px[<<2, 1>>]

SqDist(c, e) ==
    (c[1] - e[1]) * (c[1] - e[1]) + (c[2] - e[2]) * (c[2] - e[2])
    + (c[3] - e[3]) * (c[3] - e[3])

\* C3: on a memo miss in RGB mode the entry returned has the least sum of
\* squared channel differences to the colour, and is the first such entry
\* of the palette.
C3_FirstNearest ==
    (pc = "match" /\ local.valid /\ ~local.hit) =>
        \E i \in 1..Len(palette) :
            /\ local.result = palette[i]
            /\ \A j \in 1..Len(palette) :
                 SqDist(local.color, palette[j]) >= SqDist(local.color, palette[i])
            /\ \A j \in 1..(i - 1) :
                 SqDist(local.color, palette[j]) > SqDist(local.color, palette[i])

C3_Witness ==
    /\ pc = "match"
    /\ local.valid
    /\ ~local.hit
    /\ Len(palette) >= 2
    /\ palette[1] # palette[2]
    /\ SqDist(local.color, palette[1]) = SqDist(local.color, palette[2])
    /\ SqDist(local.color, palette[1]) > 0
    /\ local.result = palette[1]

\* C4: for every block the alpha written is the mean of the block's alphas
\* rounded to the nearest integer, and the colour average is, in every mode,
\* the per-channel sum over the block's pixels divided by their number
\* (rounded to the nearest integer in RGB mode).
C4_UnweightedMean ==
    (pc = "loop" /\ local.valid) =>
        /\ 2 * Abs(local.avg_alpha * Len(local.container)
                   - SumInt(local.container, 4, 1)) <= Len(local.container)
        /\ \A ch \in 1..3 :
             IF args.mode = "rgb"
               THEN 2 * Abs(local.average[ch] * Len(local.container)
                            - SumInt(local.container, ch, 1))
                    <= Len(local.container)
             ELSE RMul(local.average[ch], RInt(Len(local.converted)))
                  = SumRat(local.converted, ch, 1)

\* C5: for blockSize >= 1, phixel_crop returns the floor(W/B)*B x floor(H/B)*B
\* sub-rectangle of the buffer that touches the anchor corner, unchanged.
C5_CropRegion ==
    (pc = "phixelate" /\ Contains(calls, "phixel_crop") /\ args.block >= 1) =>
        /\ img.w = (pre.w \div args.block) * args.block
        /\ img.h = (pre.h \div args.block) * args.block
        /\ DOMAIN img.px = Cells(img.w, img.h)
        /\ \A c \in DOMAIN img.px :
             img.px[c] =
               pre.px[<<c[1] + (IF args.crop \in {"tr", "br"}
                                  THEN pre.w - img.w ELSE 0),
                        c[2] + (IF args.crop \in {"bl", "br"}
                                  THEN pre.h - img.h ELSE 0)>>]

C5_Witness ==
    /\ pc = "phixelate"
    /\ Contains(calls, "phixel_crop")
    /\ args.block = 3
    /\ args.crop = "tr"
    /\ pre.w = 10
    /\ pre.h = 10
    /\ img.w = 9
    /\ img.h = 9
    /\ img.px[<<0, 0>>] = pre.px[<<1, 0>>]
    /\ img.px[<<8, 8>>] = pre.px[<<9, 8>>]

\* C6: in RGB mode with no palette and blockSize 1, phixelate leaves every
\* pixel of the buffer unchanged.
C6_BlockOneIdentity ==
    (pc = "save" /\ args.mode = "rgb" /\ palette = <<>> /\ args.block = 1) =>
        img = pre

C6_Witness ==
    /\ pc = "save"
    /\ args.mode = "rgb"
    /\ palette = <<>>
    /\ args.block = 1
    /\ img.w = 2
    /\ img.h = 2
    /\ img.px[<<0, 0>>] # img.px[<<1, 0>>]
    /\ img.px[<<0, 1>>] # img.px[<<0, 0>>]
    /\ img = pre

\* The palette the command line asks for cannot be loaded.
PaletteLoadFails ==
    \/ args.custom \in {"missing", "malformed"}
    \/ args.custom = "absent" /\ args.palette \in {"missing", "malformed"}

\* C7: when the requested palette, built-in or custom, fails to load, the run
\* does not abort: the palette is absent, a warning is reported, and (for a
\* positive block size) the run ends having emitted an image.
C7_PaletteLoadDegrades ==
    (PaletteLoadFails /\ pc \notin {"parse", "load"}) =>
        /\ palette = <<>>
        /\ Contains(stderr, "No palette loaded")
        /\ (pc = "exit" /\ args.block >= 1) =>
               (exitcode = 0 /\ outfile # NoImage)

\* C8: when the requested resize fails after phixelate, the un-resized
\* pixelated buffer is emitted, a warning is reported and the run exits
\* successfully; no image is emitted before phixelate has returned.
C8_ResizeFallback ==
    /\ (pc = "exit" /\ Contains(calls, "resize raised")) =>
           /\ outfile = img
           /\ Contains(stderr, "Failed to resize image")
           /\ exitcode = 0
    /\ (args.dimensions \in {"malformed", "invalid"}
        /\ Contains(calls, "phixelate") /\ pc = "exit") =>
           Contains(calls, "resize raised")
    /\ outfile # NoImage => Contains(calls, "phixelate")

C8_Witness ==
    /\ pc = "exit"
    /\ args.dimensions = "malformed"
    /\ args.block = 2
    /\ Contains(calls, "resize raised")
    /\ outfile = img
    /\ img.w = 2
    /\ img.h = 1
    /\ img.px[<<0, 0>>] = img.px[<<1, 0>>]
    /\ pre.px[<<0, 0>>] # pre.px[<<1, 0>>]

\* C9: a non-positive blockSize aborts the run before any pixel processing:
\* neither phixel_crop nor phixelate completes and no image is emitted.
C9_NonPositiveBlockRejected ==
    args.block <= 0 =>
        /\ ~Contains(calls, "phixel_crop")
        /\ ~Contains(calls, "phixelate")
        /\ outfile = NoImage

\* C10: the tuple phixelate leaves in a block depends only on that block's
\* own original pixels, the palette, the mode and blockSize: it is what
\* reducing that block alone, with an empty memo table, stores.
C10_BlocksIndependent ==
    (pc = "save" /\ args.block >= 1) =>
        \A c \in DOMAIN img.px :
            img.px[c] =
              WriteBlock(pre,
                         <<c>>,
                         ReduceBlock(pre, palette, {}, args.block, args.mode,
                                     c[1] \div args.block,
                                     c[2] \div args.block).color).px[c]

====
